---- MODULE Spec2Model ----
(***************************************************************************)
(* A model of the tyssue sheet: the half-edge tables (vert_df, edge_df,    *)
(* face_df) under the topology operations of topology/sheet_topology.py,   *)
(* the derived columns of geometry/sheet_geometry.py and the energy and    *)
(* gradient of dynamics/sheet_vertex_model.py.                             *)
(*                                                                         *)
(* Tables are sequences: the row with pandas label k is element k+1, so an *)
(* identifier of the model is the pandas label plus one and 0 is "none".   *)
(* append(..., ignore_index=True) gives the new row the label len(table),  *)
(* which is Len(table)+1 here.                                             *)
(***************************************************************************)
EXTENDS Integers, Sequences, FiniteSets, TLC

VARIABLES edge_df, vert_df, face_df, settings, last, nops

vars == <<edge_df, vert_df, face_df, settings, last, nops>>

\* Number of calls the driver makes on the sheet in one run.
MaxOps == 1

(***************************************************************************)
(* Helpers on tables                                                       *)
(***************************************************************************)
Min(S) == CHOOSE x \in S : \A y \in S : x <= y

\* df[mask].index : the labels of the rows satisfying the mask, and
\* .index[0], its first label (IndexError when there is none: see callers).
srce_trgt(E, s, t) == {i \in DOMAIN E : E[i].srce = s /\ E[i].trgt = t}

srce_face(E, s, f) == {i \in DOMAIN E : E[i].srce = s /\ E[i].face = f}

face_edges(E, f) == {i \in DOMAIN E : E[i].face = f}

(***************************************************************************)
(* Initial meshes                                                          *)
(***************************************************************************)
\* The half-edges of one face given as the cycle of its vertices.
CycleEdges(cyc, f) ==
    [i \in 1..Len(cyc) |->
        [srce |-> cyc[i], trgt |-> cyc[(i % Len(cyc)) + 1], face |-> f]]

RECURSIVE MeshEdges(_, _)
MeshEdges(cycles, k) ==
    IF k = 0 THEN <<>>
    ELSE MeshEdges(cycles, k - 1) \o CycleEdges(cycles[k], k)

\* A closed sheet: the triangular prism, every half-edge paired, every
\* vertex trivalent, every edge surrounded by four different faces.
PrismCycles ==
    << <<1, 3, 2>>, <<4, 5, 6>>, <<1, 2, 5, 4>>, <<2, 3, 6, 5>>, <<3, 1, 4, 6>> >>

\* An open sheet: two quadrilaterals sharing the edge 2-3; every other
\* half-edge is on the boundary and has no opposite.
PatchCycles == << <<1, 2, 3, 4>>, <<2, 5, 6, 3>> >>

\* A closed sheet of three cells: two triangles 1-2-3 and 2-1-4 sharing the
\* edge 1-2, and the quadrilateral 1-3-2-4 closing the surface.  Every
\* half-edge has exactly one opposite, in another face; the vertices 3 and 4
\* are bivalent, like the vertices add_vert inserts.
ThreeCellCycles == << <<1, 2, 3>>, <<2, 1, 4>>, <<1, 3, 2, 4>> >>

InitMeshes ==
    { [edges |-> MeshEdges(PrismCycles, Len(PrismCycles)),
       nv |-> 6, nf |-> 5, dead |-> {}],
      [edges |-> MeshEdges(PatchCycles, Len(PatchCycles)),
       nv |-> 6, nf |-> 2, dead |-> {}],
      [edges |-> MeshEdges(PatchCycles, Len(PatchCycles)),
       nv |-> 6, nf |-> 2, dead |-> {2}],
      [edges |-> MeshEdges(ThreeCellCycles, Len(ThreeCellCycles)),
       nv |-> 4, nf |-> 3, dead |-> {}] }

\* The record of the last call: its arguments, how it ended, what it
\* returned, the sheet methods it invoked, and the locals the claims speak
\* of (type1_transition: the faces <<cell_a, cell_b, cell_c, cell_d>> and the
\* sizes of its five selections; cell_division: <<edge_a, edge_b>>, the
\* selection m_data[srce_pos < 0], and what the division line meets).
NoCall == [op |-> "none", edge |-> 0, face |-> 0, outcome |-> "ok",
           ret |-> <<0, 0, 0>>, calls |-> {},
           faces |-> <<0, 0, 0, 0>>, nmatch |-> <<0, 0, 0, 0, 0>>,
           cut |-> <<0, 0>>, neg |-> {}, cross |-> <<0, 0, 0>>]

(***************************************************************************)
(* type1_transition(sheet, edge01)                                         *)
(***************************************************************************)
\* The rearrangement with line 52 giving edge31 to cell_b instead of cell_c.
type1_rearrange_wrong_face(E, vert0, vert1, vert3, vert5, cell_a, cell_b, cell_c, cell_d, edge01, edge10, edge13, edge31, edge50, edge05) ==
    LET E1 == [E  EXCEPT ![edge01].face = cell_c]
        E2 == [E1 EXCEPT ![edge10].face = cell_a]
        E3 == [E2 EXCEPT ![edge13] = [srce |-> vert0, trgt |-> vert3, face |-> cell_b]]
        E4 == [E3 EXCEPT ![edge31] = [srce |-> vert3, trgt |-> vert0, face |-> cell_b]]
        E5 == [E4 EXCEPT ![edge50] = [srce |-> vert5, trgt |-> vert1, face |-> cell_a]]
        E6 == [E5 EXCEPT ![edge05] = [srce |-> vert1, trgt |-> vert5, face |-> cell_d]]
    IN E6

\* Lines 47-55: the six assignments, in the order of the source.
type1_rearrange(E, vert0, vert1, vert3, vert5, cell_a, cell_b, cell_c, cell_d, edge01, edge10, edge13, edge31, edge50, edge05) ==
    LET E1 == [E  EXCEPT ![edge01].face = cell_c]
        E2 == [E1 EXCEPT ![edge10].face = cell_a]
        E3 == [E2 EXCEPT ![edge13] = [srce |-> vert0, trgt |-> vert3, face |-> cell_b]]
        E4 == [E3 EXCEPT ![edge31] = [srce |-> vert3, trgt |-> vert0, face |-> cell_c]]
        E5 == [E4 EXCEPT ![edge50] = [srce |-> vert5, trgt |-> vert1, face |-> cell_a]]
        E6 == [E5 EXCEPT ![edge05] = [srce |-> vert1, trgt |-> vert5, face |-> cell_d]]
    IN E6

\* The whole call: the edge table afterwards, how the call ended, and the
\* sheet methods it invoked.  Every .index[0] on an empty selection raises
\* IndexError; nothing in the function catches it.
type1_transition(E, edge01) ==
    LET raise == [edge_df |-> E, outcome |-> "IndexError", calls |-> {}]
        vert0 == E[edge01].srce
        vert1 == E[edge01].trgt
        cell_b == E[edge01].face
        edge10_ == srce_trgt(E, vert1, vert0)
    IN IF edge10_ = {} THEN raise ELSE
    LET edge10 == Min(edge10_)
        cell_d == E[edge10].face
        edge05_ == srce_face(E, vert0, cell_d)
    IN IF edge05_ = {} THEN raise ELSE
    LET edge05 == Min(edge05_)
        vert5 == E[edge05].trgt
        edge50_ == srce_trgt(E, vert5, vert0)
    IN IF edge50_ = {} THEN raise ELSE
    LET edge50 == Min(edge50_)
        cell_a == E[edge50].face
        edge13_ == srce_face(E, vert1, cell_b)
    IN IF edge13_ = {} THEN raise ELSE
    LET edge13 == Min(edge13_)
        vert3 == E[edge13].trgt
        edge31_ == srce_trgt(E, vert3, vert1)
    IN IF edge31_ = {} THEN raise ELSE
    LET edge31 == Min(edge31_)
        cell_c == E[edge31].face
    IN [edge_df |-> type1_rearrange(E, vert0, vert1, vert3, vert5,
                                    cell_a, cell_b, cell_c, cell_d,
                                    edge01, edge10, edge13, edge31, edge50, edge05),
        outcome |-> "ok",
        calls |-> {"reset_topo"}]

\* The five selections of lines 17-40, for the claims that speak of them.
type1_lookups(E, edge01) ==
    LET vert0 == E[edge01].srce
        vert1 == E[edge01].trgt
        cell_b == E[edge01].face
        edge10_ == srce_trgt(E, vert1, vert0)
        edge13_ == srce_face(E, vert1, cell_b)
        edge31_ == IF edge13_ = {} THEN {}
                   ELSE srce_trgt(E, E[Min(edge13_)].trgt, vert1)
        edge05_ == IF edge10_ = {} THEN {}
                   ELSE srce_face(E, vert0, E[Min(edge10_)].face)
        edge50_ == IF edge05_ = {} THEN {}
                   ELSE srce_trgt(E, E[Min(edge05_)].trgt, vert0)
    IN <<edge10_, edge05_, edge50_, edge13_, edge31_>>

\* <<cell_a, cell_b, cell_c, cell_d>> as lines 15-40 find them (0: not found).
type1_faces(E, edge01) ==
    LET L == type1_lookups(E, edge01)
    IN << IF L[3] = {} THEN 0 ELSE E[Min(L[3])].face,
          E[edge01].face,
          IF L[5] = {} THEN 0 ELSE E[Min(L[5])].face,
          IF L[1] = {} THEN 0 ELSE E[Min(L[1])].face >>

type1_nmatch(E, edge01) ==
    [k \in 1..5 |-> Cardinality(type1_lookups(E, edge01)[k])]

Type1Transition ==
    /\ nops < MaxOps
    /\ last.outcome \in {"ok", "not_alive"}
    /\ \E edge01 \in DOMAIN edge_df :
         LET r == type1_transition(edge_df, edge01) IN
         /\ edge_df' = r.edge_df
         /\ last' = [NoCall EXCEPT !.op = "type1_transition", !.edge = edge01,
                                   !.outcome = r.outcome, !.calls = r.calls,
                                   !.faces = type1_faces(edge_df, edge01),
                                   !.nmatch = type1_nmatch(edge_df, edge01)]
    /\ nops' = nops + 1
    /\ UNCHANGED settings
    /\ UNCHANGED <<vert_df, face_df>>

(***************************************************************************)
(* add_vert(sheet, edge)                                                   *)
(***************************************************************************)
\* add_vert without line 80: the opposite edge keeps its source.
add_vert_opp_not_rewired(E, V, edge) ==
    LET srce == E[edge].srce
        trgt == E[edge].trgt
        opposite == srce_trgt(E, trgt, srce)
    IN IF opposite = {}
       THEN [edge_df |-> E, vert_df |-> V, outcome |-> "IndexError",
             ret |-> <<0, 0, 0>>]
       ELSE
    LET opp_edge == Min(opposite)
        V1 == Append(V, Len(V) + 1)
        new_vert == Len(V1)
        E2 == [E  EXCEPT ![edge].trgt = new_vert]
        E3 == Append(E2, E2[edge])
        new_edge == Len(E3)
        E4 == [E3 EXCEPT ![new_edge].srce = new_vert]
        E5 == [E4 EXCEPT ![new_edge].trgt = trgt]
        E6 == Append(E5, E5[opp_edge])
        new_opp_edge == Len(E6)
        E7 == [E6 EXCEPT ![new_opp_edge].trgt = new_vert]
        E8 == [E7 EXCEPT ![new_opp_edge].srce = trgt]
    IN [edge_df |-> E8, vert_df |-> V1, outcome |-> "ok",
        ret |-> <<new_vert, new_edge, new_opp_edge>>]

\* The whole call: both tables afterwards, how the call ended and the
\* returned (new_vert, new_edge, new_opp_edge).
add_vert(E, V, edge) ==
    LET srce == E[edge].srce
        trgt == E[edge].trgt
        opposite == srce_trgt(E, trgt, srce)
    IN IF opposite = {}
       THEN [edge_df |-> E, vert_df |-> V, outcome |-> "IndexError",
             ret |-> <<0, 0, 0>>]
       ELSE
    LET opp_edge == Min(opposite)
        V1 == Append(V, Len(V) + 1)
        new_vert == Len(V1)
        E1 == [E  EXCEPT ![edge].trgt = new_vert]
        E2 == [E1 EXCEPT ![opp_edge].srce = new_vert]
        E3 == Append(E2, E2[edge])
        new_edge == Len(E3)
        E4 == [E3 EXCEPT ![new_edge].srce = new_vert]
        E5 == [E4 EXCEPT ![new_edge].trgt = trgt]
        E6 == Append(E5, E5[opp_edge])
        new_opp_edge == Len(E6)
        E7 == [E6 EXCEPT ![new_opp_edge].trgt = new_vert]
        E8 == [E7 EXCEPT ![new_opp_edge].srce = trgt]
    IN [edge_df |-> E8, vert_df |-> V1, outcome |-> "ok",
        ret |-> <<new_vert, new_edge, new_opp_edge>>]

AddVert ==
    /\ nops < MaxOps
    /\ last.outcome \in {"ok", "not_alive"}
    /\ \E edge \in DOMAIN edge_df :
         LET r == add_vert(edge_df, vert_df, edge) IN
         /\ edge_df' = r.edge_df
         /\ vert_df' = r.vert_df
         /\ last' = [NoCall EXCEPT !.op = "add_vert", !.edge = edge,
                                   !.outcome = r.outcome, !.ret = r.ret]
    /\ nops' = nops + 1
    /\ UNCHANGED settings
    /\ UNCHANGED face_df

(***************************************************************************)
(* cell_division(sheet, mother, geom, angle)                               *)
(***************************************************************************)
\* geom.face_projected_pos(sheet, mother, psi=angle)['x'] enters only by its
\* sign at each vertex of the mother: x is a float with three cases, below,
\* on and above the division line.  The positions and the angle are any, so
\* the signs are an input of the call.
Signs == {-1, 0, 1}

\* Line 210: the srce of the edges of the face, the index of rot_pos.
face_orbit(E, f) == {E[i].srce : i \in face_edges(E, f)}

\* Lines 105-113 on the table before the call.
neg_to_pos(E, mother, x) ==
    {i \in face_edges(E, mother) : x[E[i].srce] < 0 /\ x[E[i].trgt] > 0}

pos_to_neg(E, mother, x) ==
    {i \in face_edges(E, mother) : x[E[i].srce] > 0 /\ x[E[i].trgt] < 0}

srce_neg(E, mother, x) ==
    {i \in face_edges(E, mother) : x[E[i].srce] < 0}

\* The rewiring with line 136 leaving new_edge_b out of daughter_edges.
division_rewire_short(E, F, mother, m_neg, vert_a, vert_b, new_edge_b) ==
    LET F1 == Append(F, F[mother])
        daughter == Len(F1)
        edge_cols == E[new_edge_b]
        E1 == Append(E, edge_cols)
        new_edge_m == Len(E1)
        E2 == [E1 EXCEPT ![new_edge_m].srce = vert_b, ![new_edge_m].trgt = vert_a]
        E3 == Append(E2, edge_cols)
        new_edge_d == Len(E3)
        E4 == [E3 EXCEPT ![new_edge_d].srce = vert_a, ![new_edge_d].trgt = vert_b]
        daughter_edges == m_neg \cup {new_edge_d}
        E5 == [i \in DOMAIN E4 |->
                 IF i \in daughter_edges THEN [E4[i] EXCEPT !.face = daughter]
                 ELSE E4[i]]
    IN [edge_df |-> E5, face_df |-> F1]

\* Lines 119-137, once both add_vert calls have returned.
division_rewire(E, F, mother, m_neg, vert_a, vert_b, new_edge_b) ==
    LET F1 == Append(F, F[mother])
        daughter == Len(F1)
        edge_cols == E[new_edge_b]
        E1 == Append(E, edge_cols)
        new_edge_m == Len(E1)
        E2 == [E1 EXCEPT ![new_edge_m].srce = vert_b, ![new_edge_m].trgt = vert_a]
        E3 == Append(E2, edge_cols)
        new_edge_d == Len(E3)
        E4 == [E3 EXCEPT ![new_edge_d].srce = vert_a, ![new_edge_d].trgt = vert_b]
        daughter_edges == m_neg \cup {new_edge_b, new_edge_d}
        E5 == [i \in DOMAIN E4 |->
                 IF i \in daughter_edges THEN [E4[i] EXCEPT !.face = daughter]
                 ELSE E4[i]]
    IN [edge_df |-> E5, face_df |-> F1]

\* Lines 106-110: rot_pos is indexed by the srce of the mother's edges and
\* is read at the srce and at the trgt of each of them.
orbit_unique(E, mother) ==
    \A i, j \in face_edges(E, mother) : E[i].srce = E[j].srce => i = j

orbit_closed(E, mother) ==
    \A i \in face_edges(E, mother) :
        \E j \in face_edges(E, mother) : E[j].srce = E[i].trgt

\* Lines 102-139, the mother being alive.  lax: a label missing from rot_pos
\* reads as NaN (the older pandas), which is neither < 0 nor > 0, like 0;
\* otherwise .loc raises KeyError.
divide_live(E, V, F, mother, x, lax) ==
    LET stop(o) == [edge_df |-> E, vert_df |-> V, face_df |-> F,
                    outcome |-> o, calls |-> {}]
    IN IF ~orbit_unique(E, mother) THEN stop("ValueError")
       ELSE IF ~orbit_closed(E, mother) /\ ~lax THEN stop("KeyError")
       ELSE
    LET a_ == neg_to_pos(E, mother, x)
        b_ == pos_to_neg(E, mother, x)
    IN IF a_ = {} \/ b_ = {} THEN stop("IndexError")
       ELSE
    LET edge_a == Min(a_)
        edge_b == Min(b_)
        m_neg == srce_neg(E, mother, x)
        ra == add_vert(E, V, edge_a)
    IN IF ra.outcome # "ok"
       THEN [edge_df |-> ra.edge_df, vert_df |-> ra.vert_df, face_df |-> F,
             outcome |-> ra.outcome, calls |-> {}]
       ELSE
    LET rb == add_vert(ra.edge_df, ra.vert_df, edge_b)
    IN IF rb.outcome # "ok"
       THEN [edge_df |-> rb.edge_df, vert_df |-> rb.vert_df, face_df |-> F,
             outcome |-> rb.outcome, calls |-> {}]
       ELSE
    LET w == division_rewire(rb.edge_df, F, mother, m_neg,
                             ra.ret[1], rb.ret[1], rb.ret[2])
    IN [edge_df |-> w.edge_df, vert_df |-> rb.vert_df, face_df |-> w.face_df,
        outcome |-> "ok", calls |-> {"reset_topo", "update_all"}]

\* cell_division without the test of lines 98-100.
cell_division_unguarded(E, V, F, mother, x, lax) ==
    divide_live(E, V, F, mother, x, lax)

\* The whole call.  Lines 98-100: a mother that is not alive is logged and
\* the call returns.
cell_division(E, V, F, mother, x, lax) ==
    IF F[mother].is_alive = 0
    THEN [edge_df |-> E, vert_df |-> V, face_df |-> F,
          outcome |-> "not_alive", calls |-> {}]
    ELSE divide_live(E, V, F, mother, x, lax)

\* What the division line meets on the mother before the call: the number of
\* edges crossing it upwards, of edges crossing it downwards, and of vertices
\* lying on it.
crossings(E, mother, x) ==
    << Cardinality(neg_to_pos(E, mother, x)),
       Cardinality(pos_to_neg(E, mother, x)),
       Cardinality({v \in face_orbit(E, mother) : x[v] = 0}) >>

\* <<edge_a, edge_b>> of lines 112-113 (0: the selection is empty).
division_cut(E, mother, x) ==
    << IF neg_to_pos(E, mother, x) = {} THEN 0 ELSE Min(neg_to_pos(E, mother, x)),
       IF pos_to_neg(E, mother, x) = {} THEN 0 ELSE Min(pos_to_neg(E, mother, x)) >>

CellDivision ==
    /\ nops < MaxOps
    /\ last.outcome \in {"ok", "not_alive"}
    /\ \E mother \in DOMAIN face_df :
       \E xs \in [face_orbit(edge_df, mother) -> Signs] :
       \E lax \in IF orbit_closed(edge_df, mother) THEN {FALSE} ELSE BOOLEAN :
         LET x == [v \in DOMAIN vert_df |-> IF v \in DOMAIN xs THEN xs[v] ELSE 0]
             r == cell_division(edge_df, vert_df, face_df, mother, x, lax) IN
         /\ edge_df' = r.edge_df
         /\ vert_df' = r.vert_df
         /\ face_df' = r.face_df
         /\ last' = [NoCall EXCEPT !.op = "cell_division", !.face = mother,
                                   !.outcome = r.outcome, !.calls = r.calls,
                                   !.cut = division_cut(edge_df, mother, x),
                                   !.neg = srce_neg(edge_df, mother, x),
                                   !.cross = crossings(edge_df, mother, x)]
    /\ nops' = nops + 1
    /\ UNCHANGED settings

(***************************************************************************)
(* Predicates of the claims                                                *)
(***************************************************************************)
\* A face is a closed cycle of edges: every vertex that is the target of one
\* of its edges is the source of exactly one other edge of the face.
closed_face(E, f) ==
    \A i \in face_edges(E, f) :
        Cardinality({j \in face_edges(E, f) \ {i} : E[j].srce = E[i].trgt}) = 1

all_closed(E, F) == \A f \in DOMAIN F : closed_face(E, f)

\* The half-edge i has exactly one opposite edge, and in another face.
paired(E, i) ==
    LET opp == srce_trgt(E, E[i].trgt, E[i].srce)
    IN Cardinality(opp) = 1 /\ \A j \in opp : E[j].face # E[i].face

distinct4(q) == \A i, j \in 1..4 : i # j => q[i] # q[j]

StepOf(op) == nops' = nops + 1 /\ last'.op = op

SameTables == edge_df' = edge_df /\ vert_df' = vert_df /\ face_df' = face_df

SameCounts ==
    /\ Len(vert_df') = Len(vert_df)
    /\ Len(edge_df') = Len(edge_df)
    /\ Len(face_df') = Len(face_df)

C2_GracefulNoOp ==
    [][ ( /\ StepOf("type1_transition")
          /\ \E k \in 1..5 : last'.nmatch[k] # 1 )
        => ( last'.outcome # "IndexError" /\ SameTables ) ]_vars

(***************************************************************************)
(* C3                                                                      *)
(***************************************************************************)
\* C3: a call of add_vert or cell_division that fails leaves the three
\* tables as they were before the call.
C3_Atomic ==
    [][ ( /\ StepOf("add_vert") \/ StepOf("cell_division")
          /\ last'.outcome # "ok" )
        => SameTables ]_vars

(***************************************************************************)
(* C4                                                                      *)
(***************************************************************************)
\* What C4 says of the tables after the call: one new face, the daughter;
\* two new vertices, one on each crossing edge; mother and daughter closed
\* cycles; the daughter made of the mother's former negative-side edges, the
\* continuation of edge_b and one division edge; the division line a pair of
\* opposite half-edges between the two new vertices, one in each face.
division_done ==
    LET mother == last'.face
        daughter == Len(face_df) + 1
        vert_a == Len(vert_df) + 1
        vert_b == Len(vert_df) + 2
        E == edge_df'
    IN /\ last'.outcome = "ok"
       /\ Len(face_df') = Len(face_df) + 1
       /\ Len(vert_df') = Len(vert_df) + 2
       /\ E[last'.cut[1]].trgt = vert_a
       /\ E[last'.cut[2]].trgt = vert_b
       /\ closed_face(E, mother)
       /\ closed_face(E, daughter)
       /\ \A i \in last'.neg : E[i].face = daughter
       /\ \A i \in face_edges(E, daughter) :
            i \in last'.neg \/ i > Len(edge_df)
       /\ \E i \in face_edges(E, mother) : \E j \in face_edges(E, daughter) :
            /\ E[i].srce = vert_b /\ E[i].trgt = vert_a
            /\ E[j].srce = vert_a /\ E[j].trgt = vert_b
       /\ \A f \in DOMAIN face_df \ {mother} : closed_face(E, f)

C5_DeadMotherUntouched ==
    [][ ( /\ StepOf("cell_division")
          /\ face_df[last'.face].is_alive = 0 )
        => ( /\ SameTables
             /\ last'.outcome = "not_alive"
             /\ last'.calls = {} ) ]_vars

C5_Witness ==
    /\ last.op = "cell_division"
    /\ last.outcome = "not_alive"
    /\ face_df[last.face].is_alive = 0

(***************************************************************************)
(* C6                                                                      *)
(***************************************************************************)
\* C6: add_vert on an edge s->t (s # t) of face f whose opposite t->s of
\* face g exists makes one vertex n and two edges and no face; afterwards the
\* edge is s->n in f, its opposite n->s in g, the first new edge n->t in f
\* and the second t->n in g; the returned identifiers are those of the new
\* rows, none of them an identifier of before, and every other row that
\* existed is as it was.
C6_AddVertSplits ==
    [][ ( /\ StepOf("add_vert")
          /\ edge_df[last'.edge].srce # edge_df[last'.edge].trgt
          /\ srce_trgt(edge_df, edge_df[last'.edge].trgt,
                                edge_df[last'.edge].srce) # {} )
        => LET edge == last'.edge
               s == edge_df[edge].srce
               t == edge_df[edge].trgt
               f == edge_df[edge].face
               opp == Min(srce_trgt(edge_df, t, s))
               g == edge_df[opp].face
               n == last'.ret[1]
               e1 == last'.ret[2]
               e2 == last'.ret[3]
           IN /\ last'.outcome = "ok"
              /\ Len(vert_df') = Len(vert_df) + 1
              /\ Len(edge_df') = Len(edge_df) + 2
              /\ face_df' = face_df
              /\ n = Len(vert_df') /\ n \notin DOMAIN vert_df
              /\ e1 \in DOMAIN edge_df' \ DOMAIN edge_df
              /\ e2 \in DOMAIN edge_df' \ DOMAIN edge_df
              /\ e1 # e2
              /\ edge_df'[edge] = [srce |-> s, trgt |-> n, face |-> f]
              /\ edge_df'[opp] = [srce |-> n, trgt |-> s, face |-> g]
              /\ edge_df'[e1] = [srce |-> n, trgt |-> t, face |-> f]
              /\ edge_df'[e2] = [srce |-> t, trgt |-> n, face |-> g]
              /\ \A i \in DOMAIN edge_df \ {edge, opp} : edge_df'[i] = edge_df[i]
              /\ \A v \in DOMAIN vert_df : vert_df'[v] = vert_df[v] ]_vars

C6_Witness ==
    /\ last.op = "add_vert"
    /\ last.outcome = "ok"
    /\ last.ret = <<Len(vert_df), Len(edge_df) - 1, Len(edge_df)>>
    /\ edge_df[last.edge].trgt = last.ret[1]
    /\ edge_df[last.ret[2]].srce = last.ret[1]

Init ==
    /\ \E m \in InitMeshes :
         /\ edge_df = m.edges
         /\ vert_df = [i \in 1..m.nv |-> i]
         /\ face_df = [f \in 1..m.nf |->
                         [is_alive |-> IF f \in m.dead THEN 0 ELSE 1]]
    /\ settings = [geometry |-> "flat"]
    /\ last = NoCall
    /\ nops = 0

Next == Type1Transition \/ AddVert \/ CellDivision

Spec == Init /\ [][Next]_vars

(***************************************************************************)
(* Columns of numbers                                                      *)
(*                                                                         *)
(* A float column is held in fixed point: integers, with sqrt and the      *)
(* divisions rounding down where the floats round to nearest.  A unit      *)
(* vector and a gradient of area or height are held multiplied by Unit.    *)
(* A row of coords, dcoords or ncoords is a triple <<x, y, z>>.            *)
(***************************************************************************)
Unit == 8

isqrt(n) == CHOOSE r \in 0..n : r * r <= n /\ (r + 1) * (r + 1) > n

minus(a, b) == <<a[1] - b[1], a[2] - b[2], a[3] - b[3]>>

plus(a, b) == <<a[1] + b[1], a[2] + b[2], a[3] + b[3]>>

times(k, a) == <<k * a[1], k * a[2], k * a[3]>>

over(a, k) == <<a[1] \div k, a[2] \div k, a[3] \div k>>

\* np.cross
cross(a, b) ==
    <<a[2] * b[3] - a[3] * b[2], a[3] * b[1] - a[1] * b[3],
      a[1] * b[2] - a[2] * b[1]>>

\* np.linalg.norm(..., axis=1) of one row
norm(a) == isqrt(a[1] * a[1] + a[2] * a[2] + a[3] * a[3])

\* np.hypot
hypot(a, b) == isqrt(a * a + b * b)

\* col[S].sum() for a column of scalars, and for a column of triples
RECURSIVE sum_rows(_, _)
sum_rows(S, col) ==
    IF S = {} THEN 0
    ELSE LET i == Min(S) IN col[i] + sum_rows(S \ {i}, col)

sum_rows3(S, col) ==
    <<sum_rows(S, [i \in S |-> col[i][1]]),
      sum_rows(S, [i \in S |-> col[i][2]]),
      sum_rows(S, [i \in S |-> col[i][3]])>>

\* The sheet as one value: its three tables and its settings.
sheet ==
    [vert_df |-> vert_df, edge_df |-> edge_df, face_df |-> face_df,
     settings |-> settings]

\* sheet.sum_face(col): the per-face sum of an edge column
sum_face(sh, col) ==
    [f \in DOMAIN sh.face_df |-> sum_rows(face_edges(sh.edge_df, f), col)]

\* df.sum(level='srce'), df.sum(level='trgt'): the per-vertex sums of an
\* edge column of triples
sum_srce(sh, col) ==
    [i \in DOMAIN sh.vert_df |->
        sum_rows3({e \in DOMAIN sh.edge_df : sh.edge_df[e].srce = i}, col)]

sum_trgt(sh, col) ==
    [i \in DOMAIN sh.vert_df |->
        sum_rows3({e \in DOMAIN sh.edge_df : sh.edge_df[e].trgt = i}, col)]

(***************************************************************************)
(* geometry/sheet_geometry.py : SheetGeometry                              *)
(***************************************************************************)
\* PlanarGeometry.update_dcoords: dcoords = trgt position - srce position
update_dcoords(sh) ==
    LET V == sh.vert_df
        E == sh.edge_df
    IN  [sh EXCEPT !.edge_df =
            [e \in DOMAIN E |->
                [E[e] EXCEPT !.dcoords =
                    minus(V[E[e].trgt].pos, V[E[e].srce].pos)]]]

\* PlanarGeometry.update_length: length = norm of dcoords
update_length(sh) ==
    LET E == sh.edge_df
    IN  [sh EXCEPT !.edge_df =
            [e \in DOMAIN E |-> [E[e] EXCEPT !.length = norm(E[e].dcoords)]]]

\* PlanarGeometry.update_centroid: face position = mean of the positions of
\* the sources of its edges
update_centroid(sh) ==
    LET V == sh.vert_df
        E == sh.edge_df
        F == sh.face_df
    IN  [sh EXCEPT !.face_df =
            [f \in DOMAIN F |->
                LET es == face_edges(E, f)
                IN  [F[f] EXCEPT !.pos =
                        over(sum_rows3(es, [e \in es |-> V[E[e].srce].pos]),
                             Cardinality(es))]]]

\* The four modes update_height has a branch for.
Modes == {"cylindrical", "flat", "spherical", "rod"}

\* u, v = (c for c in sheet.coords if c != w)
others(w) == IF w = 1 THEN <<2, 3>> ELSE IF w = 2 THEN <<1, 3>> ELSE <<1, 2>>

\* PlanarGeometry.dist_to_point: distance of a row to point, both read in
\* the order of coords
dist_to_point(p, point, coords) ==
    isqrt((p[coords[1]] - point[1]) * (p[coords[1]] - point[1])
        + (p[coords[2]] - point[2]) * (p[coords[2]] - point[2])
        + (p[coords[3]] - point[3]) * (p[coords[3]] - point[3]))

\* The rho update_height writes for vertex i: lines 99-125.  A mode without
\* a branch writes nothing, the stored rho stays.
vert_rho(sh, i) ==
    LET S == sh.settings
        row == sh.vert_df[i]
        p == row.pos
        w == S.height_axis
        u == others(w)[1]
        v == others(w)[2]
        w0 == S.ab[2] - S.ab[1]
    IN  IF S.geometry = "cylindrical" THEN hypot(p[v], p[u])
        ELSE IF S.geometry = "flat" THEN p[w]
        ELSE IF S.geometry = "spherical" THEN norm(p)
        ELSE IF S.geometry = "rod" THEN
            IF row.right_tip = 1
            THEN dist_to_point(p, <<0, 0, w0>>, <<u, v, w>>)
            ELSE IF row.left_tip = 1
            THEN dist_to_point(p, <<0, 0, -w0>>, <<u, v, w>>)
            ELSE hypot(p[u], p[v])
        ELSE row.rho

update_height(sh) ==
    LET V == sh.vert_df
        E == sh.edge_df
        F == sh.face_df
        V1 == [i \in DOMAIN V |->
                 [V[i] EXCEPT !.rho = vert_rho(sh, i),
                              !.height = vert_rho(sh, i) - V[i].basal_shift]]
        mean(f, col) ==
            LET es == face_edges(E, f)
            IN  sum_rows(es, [e \in es |-> V1[E[e].srce][col]])
                    \div Cardinality(es)
    IN  [sh EXCEPT !.vert_df = V1,
                   !.face_df =
                       [f \in DOMAIN F |->
                           [F[f] EXCEPT !.height = mean(f, "height"),
                                        !.rho = mean(f, "rho")]]]

update_normals(sh) ==
    LET V == sh.vert_df
        E == sh.edge_df
        F == sh.face_df
    IN  [sh EXCEPT !.edge_df =
            [e \in DOMAIN E |->
                [E[e] EXCEPT !.ncoords =
                    cross(minus(V[E[e].srce].pos, F[E[e].face].pos),
                          E[e].dcoords)]]]

update_areas(sh) ==
    LET E == sh.edge_df
        F == sh.face_df
        E1 == [e \in DOMAIN E |->
                 [E[e] EXCEPT !.sub_area = norm(E[e].ncoords) \div 2]]
        area == sum_face(sh, [e \in DOMAIN E |-> E1[e].sub_area])
    IN  [sh EXCEPT !.edge_df = E1,
                   !.face_df = [f \in DOMAIN F |-> [F[f] EXCEPT !.area = area[f]]]]

\* PlanarGeometry.update_perimeters: perimeter = sum_face(length)
update_perimeters(sh) ==
    LET E == sh.edge_df
        F == sh.face_df
        perimeter == sum_face(sh, [e \in DOMAIN E |-> E[e].length])
    IN  [sh EXCEPT !.face_df =
            [f \in DOMAIN F |-> [F[f] EXCEPT !.perimeter = perimeter[f]]]]

update_vol(sh) ==
    LET V == sh.vert_df
        E == sh.edge_df
        F == sh.face_df
        E1 == [e \in DOMAIN E |->
                 [E[e] EXCEPT !.sub_vol = V[E[e].srce].height * E[e].sub_area]]
        vol == sum_face(sh, [e \in DOMAIN E |-> E1[e].sub_vol])
    IN  [sh EXCEPT !.edge_df = E1,
                   !.face_df = [f \in DOMAIN F |-> [F[f] EXCEPT !.vol = vol[f]]]]

\* update_all with update_vol moved before update_areas: sub_vol is then
\* computed from the sub_area of the previous positions.
update_all_vol_first(sh) ==
    update_perimeters(update_areas(update_vol(update_normals(update_height(
        update_centroid(update_length(update_dcoords(sh))))))))

update_all(sh) ==
    update_vol(update_perimeters(update_areas(update_normals(update_height(
        update_centroid(update_length(update_dcoords(sh))))))))

(***************************************************************************)
(* dynamics/sheet_vertex_model.py and dynamics/sheet_gradients.py          *)
(*                                                                         *)
(* The vertex model names the tables cell_df, je_df, jv_df; they are       *)
(* face_df, edge_df, vert_df.                                              *)
(***************************************************************************)
\* dimentionalize(mod_specs): lines 55-70.  A0 ** 1.5 is A0 * sqrt(A0).
dimentionalize(mod_specs) ==
    LET Kv == mod_specs.cell.vol_elasticity
        A0 == mod_specs.cell.prefered_area
        h0 == mod_specs.cell.prefered_height
        gamma == mod_specs.cell.contractility
        lbda == mod_specs.je.line_tension
    IN  [cell |-> [mod_specs.cell EXCEPT
                     !.contractility = gamma * Kv * A0 * h0 * h0,
                     !.prefered_vol = A0 * h0],
         je |-> [line_tension |-> lbda * Kv * A0 * isqrt(A0) * h0 * h0],
         settings |->
             [grad_norm_factor |-> Kv * A0 * isqrt(A0) * h0 * h0,
              nrj_norm_factor |-> Kv * (A0 * h0) * (A0 * h0)]]

live_faces(sh) == {f \in DOMAIN sh.face_df : sh.face_df[f].is_alive = 1}

live_edges(sh) ==
    {e \in DOMAIN sh.edge_df : sh.face_df[sh.edge_df[e].face].is_alive = 1}

\* elastic_force of one row: K * (x - x0)
elastic_force(row) == row.vol_elasticity * (row.vol - row.prefered_vol)

\* elastic_energy of one row, doubled: K * (x - x0) ** 2
elastic_energy(row) ==
    row.vol_elasticity * (row.vol - row.prefered_vol)
                       * (row.vol - row.prefered_vol)

\* compute_energy(sheet, full_output=False).  The value is num / den: every
\* term of the source carries a factor 1/2, which is kept in den.
compute_energy(sh) ==
    LET E == sh.edge_df
        F == sh.face_df
        E_t == [e \in live_edges(sh) |-> E[e].line_tension * E[e].length]
        E_v == [f \in live_faces(sh) |-> elastic_energy(F[f])]
        E_c == [f \in live_faces(sh) |->
                  F[f].contractility * F[f].perimeter * F[f].perimeter]
    IN  [num |-> sum_rows(live_edges(sh), E_t)
                 + sum_rows(live_faces(sh),
                            [f \in live_faces(sh) |-> E_c[f] + E_v[f]]),
         den |-> 2 * sh.settings.nrj_norm_factor]

\* length_grad: the gradient of an edge's length with respect to its source,
\* (srce position - trgt position) / length
length_grad(sh) ==
    LET V == sh.vert_df
        E == sh.edge_df
    IN  [e \in DOMAIN E |->
            over(times(Unit, minus(V[E[e].srce].pos, V[E[e].trgt].pos)),
                 E[e].length)]

tension_grad(sh, grad_lij) ==
    LET E == sh.edge_df
        F == sh.face_df
    IN  [e \in DOMAIN E |->
            times(E[e].line_tension * F[E[e].face].is_alive, grad_lij[e])]

\* contractile_grad without the is_alive factor of line 161.
contractile_grad_unmasked(sh, grad_lij) ==
    LET E == sh.edge_df
        F == sh.face_df
        gamma_ == [f \in DOMAIN F |-> F[f].contractility * F[f].perimeter]
    IN  [e \in DOMAIN E |-> times(gamma_[E[e].face], grad_lij[e])]

contractile_grad(sh, grad_lij) ==
    LET E == sh.edge_df
        F == sh.face_df
        gamma_ == [f \in DOMAIN F |->
                     F[f].contractility * F[f].perimeter * F[f].is_alive]
    IN  [e \in DOMAIN E |-> times(gamma_[E[e].face], grad_lij[e])]

\* height_grad, per vertex; the caller has checked that the mode has a
\* branch.  The cylindrical branch zeroes the column named 'z'.
height_grad(sh) ==
    LET V == sh.vert_df
        mode == sh.settings.geometry
    IN  [i \in DOMAIN V |->
            IF mode = "cylindrical"
            THEN LET r == over(times(Unit, V[i].pos), V[i].rho)
                 IN  <<r[1], r[2], 0>>
            ELSE IF mode = "flat" THEN <<0, 0, Unit>>
            ELSE over(times(Unit, V[i].pos), V[i].rho)]

\* area_grad: (grad_a_srce, grad_a_trgt)
area_grad(sh) ==
    LET V == sh.vert_df
        E == sh.edge_df
        F == sh.face_df
        r_ak(e) == minus(V[E[e].srce].pos, F[E[e].face].pos)
        r_aj(e) == minus(V[E[e].trgt].pos, F[E[e].face].pos)
    IN  [srce |-> [e \in DOMAIN E |->
                     over(times(Unit, cross(r_aj(e), E[e].ncoords)),
                          4 * E[e].sub_area)],
         trgt |-> [e \in DOMAIN E |->
                     over(times(Unit, cross(E[e].ncoords, r_ak(e))),
                          4 * E[e].sub_area)]]

\* elastic_grad: (grad_v_srce, grad_v_trgt); the height gradient of an edge
\* is that of its source, whose height makes the edge's sub_vol.
elastic_grad(sh) ==
    LET V == sh.vert_df
        E == sh.edge_df
        F == sh.face_df
        kv_v0_ == [f \in DOMAIN F |-> elastic_force(F[f]) * F[f].is_alive]
        grad_a == area_grad(sh)
        grad_h == height_grad(sh)
    IN  [srce |-> [e \in DOMAIN E |->
                     times(kv_v0_[E[e].face],
                           plus(times(V[E[e].srce].height, grad_a.srce[e]),
                                times(E[e].sub_area, grad_h[E[e].srce])))],
         trgt |-> [e \in DOMAIN E |->
                     times(kv_v0_[E[e].face],
                           times(V[E[e].srce].height, grad_a.trgt[e]))]]

\* Every divisor of the gradient is non-zero: the lengths, the sub-areas
\* and, where height_grad divides by it, rho.  Otherwise a row of the
\* result is inf or nan.
finite_grad(sh) ==
    /\ \A e \in DOMAIN sh.edge_df :
          sh.edge_df[e].length # 0 /\ sh.edge_df[e].sub_area # 0
    /\ sh.settings.geometry \in {"cylindrical", "spherical"} =>
          \A i \in DOMAIN sh.vert_df : sh.vert_df[i].rho # 0

no_rows(sh) == [i \in DOMAIN sh.vert_df |-> <<0, 0, 0>>]

\* compute_gradient(sheet, components=False).  Row i of the value is
\* num[i] / den: grad_i is kept doubled in num (its tension term is halved
\* in the source), den is twice norm_factor.  den = 0 stands for a value
\* with a row that is not finite.
compute_gradient(sh) ==
    IF sh.settings.geometry \notin {"cylindrical", "flat", "spherical"}
    THEN [outcome |-> "UnboundLocalError", num |-> no_rows(sh), den |-> 0]
    ELSE IF ~finite_grad(sh)
    THEN [outcome |-> "ok", num |-> no_rows(sh), den |-> 0]
    ELSE
    LET norm_factor == sh.settings.nrj_norm_factor
        grad_lij == length_grad(sh)
        grad_t == tension_grad(sh, grad_lij)
        grad_c == contractile_grad(sh, grad_lij)
        grad_v == elastic_grad(sh)
        t_srce == sum_srce(sh, grad_t)
        t_trgt == sum_trgt(sh, grad_t)
        c_srce == sum_srce(sh, grad_c)
        c_trgt == sum_trgt(sh, grad_c)
        v_srce == sum_srce(sh, grad_v.srce)
        v_trgt == sum_trgt(sh, grad_v.trgt)
        grad_i == [i \in DOMAIN sh.vert_df |->
                     plus(minus(t_srce[i], t_trgt[i]),
                          times(2, plus(minus(c_srce[i], c_trgt[i]),
                                        plus(v_srce[i], v_trgt[i]))))]
    IN  [outcome |-> "ok", num |-> grad_i, den |-> 2 * norm_factor]

(***************************************************************************)
(* The sheet under geometry updates and the vertex model                   *)
(***************************************************************************)
\* Two triangles 1-2-3 and 2-1-4 sharing the edge 1-2.
PairCycles == << <<1, 2, 3>>, <<2, 1, 4>> >>

\* The positions of the four vertices, and the positions they had when the
\* derived columns were last computed (vertex 3 has moved since).
SheetPos == << <<4, 1, 2>>, <<1, 4, 2>>, <<1, 1, 3>>, <<4, 4, 1>> >>

PrevPos == << <<4, 1, 2>>, <<1, 4, 2>>, <<1, 1, 1>>, <<4, 4, 1>> >>

\* Model specifications a sheet is built from, before dimentionalize.
InputSpecs ==
    [cell |-> [contractility |-> 1, vol_elasticity |-> 1,
               prefered_height |-> 1, prefered_area |-> 4,
               prefered_vol |-> 2],
     je |-> [line_tension |-> 1],
     settings |-> [grad_norm_factor |-> 1, nrj_norm_factor |-> 1]]

\* Values written into a column by hand.
Coords == {1, 4}

FaceCols ==
    {"contractility", "vol_elasticity", "prefered_vol", "perimeter", "vol"}

FaceVals == {0, 3}

EdgeCols == {"line_tension", "length"}

EdgeVals == {2, 5}

\* A sheet with the given positions, mode, dead faces and model
\* specifications, its derived columns not yet computed.  Vertex 3 is
\* flagged right_tip and vertex 4 left_tip.
new_sheet(positions, mode, dead, mod_specs) ==
    LET edges == MeshEdges(PairCycles, Len(PairCycles))
    IN  [vert_df |->
             [i \in 1..Len(positions) |->
                 [pos |-> positions[i], rho |-> 0, height |-> 0,
                  basal_shift |-> 1,
                  left_tip |-> IF i = 4 THEN 1 ELSE 0,
                  right_tip |-> IF i = 3 THEN 1 ELSE 0]],
         edge_df |->
             [e \in 1..Len(edges) |->
                 [srce |-> edges[e].srce, trgt |-> edges[e].trgt,
                  face |-> edges[e].face,
                  dcoords |-> <<0, 0, 0>>, length |-> 0,
                  ncoords |-> <<0, 0, 0>>, sub_area |-> 0, sub_vol |-> 0,
                  line_tension |-> mod_specs.je.line_tension]],
         face_df |->
             [f \in 1..Len(PairCycles) |->
                 [pos |-> <<0, 0, 0>>, area |-> 0, perimeter |-> 0,
                  vol |-> 0, height |-> 0, rho |-> 0,
                  is_alive |-> IF f \in dead THEN 0 ELSE 1,
                  contractility |-> mod_specs.cell.contractility,
                  vol_elasticity |-> mod_specs.cell.vol_elasticity,
                  prefered_vol |-> mod_specs.cell.prefered_vol]],
         settings |->
             [geometry |-> mode, height_axis |-> 3, ab |-> <<1, 3>>,
              grad_norm_factor |-> mod_specs.settings.grad_norm_factor,
              nrj_norm_factor |-> mod_specs.settings.nrj_norm_factor]]

\* The record of a call on the sheet: the row and column written, how the
\* call ended, its value, whether it changed a table, and the same of the
\* call before it.
SheetCall(op, row, col, outcome, ret, changed) ==
    [op |-> op, row |-> row, col |-> col, outcome |-> outcome, ret |-> ret,
     changed |-> changed, prev |-> last.op, prev_changed |-> last.changed]

Ready == nops < MaxOps /\ last.outcome = "ok"

Put(sh, call) ==
    /\ vert_df' = sh.vert_df
    /\ edge_df' = sh.edge_df
    /\ face_df' = sh.face_df
    /\ settings' = sh.settings
    /\ last' = call
    /\ nops' = nops + 1

\* sheet.vert_df.loc[i, c] = val : a vertex is moved
SetVert ==
    /\ Ready
    /\ \E i \in DOMAIN vert_df, c \in 1..3, val \in Coords :
          /\ vert_df[i].pos[c] # val
          /\ Put([sheet EXCEPT !.vert_df[i].pos[c] = val],
                 SheetCall("set_vert", i, "pos", "ok", 0, TRUE))

\* sheet.face_df.loc[f, col] = val
SetFace ==
    /\ Ready
    /\ \E f \in DOMAIN face_df, col \in FaceCols, val \in FaceVals :
          /\ face_df[f][col] # val
          /\ Put([sheet EXCEPT !.face_df[f][col] = val],
                 SheetCall("set_face", f, col, "ok", 0, TRUE))

\* sheet.edge_df.loc[e, col] = val
SetEdge ==
    /\ Ready
    /\ \E e \in DOMAIN edge_df, col \in EdgeCols, val \in EdgeVals :
          /\ edge_df[e][col] # val
          /\ Put([sheet EXCEPT !.edge_df[e][col] = val],
                 SheetCall("set_edge", e, col, "ok", 0, TRUE))

UpdateAll ==
    /\ Ready
    /\ Put(update_all(sheet),
           SheetCall("update_all", 0, "", "ok", 0, update_all(sheet) # sheet))

UpdateHeight ==
    /\ Ready
    /\ Put(update_height(sheet),
           SheetCall("update_height", 0, "", "ok", 0,
                     update_height(sheet) # sheet))

ComputeEnergy ==
    /\ Ready
    /\ Put(sheet, SheetCall("compute_energy", 0, "", "ok",
                            compute_energy(sheet), FALSE))

ComputeGradient ==
    /\ Ready
    /\ LET r == compute_gradient(sheet)
       IN  Put(sheet, SheetCall("compute_gradient", 0, "", r.outcome,
                                [num |-> r.num, den |-> r.den], FALSE))

\* The sheet as built: derived columns computed at PrevPos or at SheetPos,
\* the vertices at SheetPos.
InitSheet ==
    /\ \E mode \in Modes \cup {"planar"}, dead \in {{}, {2}},
          dim \in BOOLEAN, positions \in {PrevPos, SheetPos} :
          LET mod_specs == IF dim THEN dimentionalize(InputSpecs)
                           ELSE InputSpecs
              sh0 == update_all(new_sheet(positions, "flat", dead, mod_specs))
              sh1 == update_all([sh0 EXCEPT !.settings.geometry = mode])
              sh == [sh1 EXCEPT !.vert_df =
                        [i \in DOMAIN sh1.vert_df |->
                            [sh1.vert_df[i] EXCEPT !.pos = SheetPos[i]]]]
          IN  /\ vert_df = sh.vert_df
              /\ edge_df = sh.edge_df
              /\ face_df = sh.face_df
              /\ settings = sh.settings
    /\ last = [op |-> "none", row |-> 0, col |-> "", outcome |-> "ok",
               ret |-> 0, changed |-> FALSE, prev |-> "none",
               prev_changed |-> FALSE]
    /\ nops = 0

NextSheet ==
    \/ SetVert
    \/ SetFace
    \/ SetEdge
    \/ UpdateAll
    \/ UpdateHeight
    \/ ComputeEnergy
    \/ ComputeGradient

SpecSheet == InitSheet /\ [][NextSheet]_vars

(***************************************************************************)
(* Claims on the geometry and the vertex model                             *)
(***************************************************************************)
\* The step writes a column of a dead face, or of a half-edge of a dead face.
dead_row_written ==
    \/ StepOf("set_face") /\ face_df[last'.row].is_alive = 0
    \/ StepOf("set_edge") /\ face_df[edge_df[last'.row].face].is_alive = 0

\* C7: a dead face contributes zero energy and zero gradient: writing
\* another value into the contractility, vol_elasticity, prefered_vol,
\* perimeter or vol of a face with is_alive = 0, or into the line_tension
\* or length of a half-edge of such a face, changes neither the value of
\* compute_energy nor any row of compute_gradient.
C7_DeadFaceIsInert ==
    [][dead_row_written =>
          /\ compute_energy(sheet') = compute_energy(sheet)
          /\ (finite_grad(sheet) /\ finite_grad(sheet')) =>
                compute_gradient(sheet') = compute_gradient(sheet)]_vars

\* A column of a dead face or of one of its half-edges has been rewritten
\* on a sheet whose energy is not zero and whose gradient has a non-zero row.
C7_Witness ==
    /\ last.op \in {"set_face", "set_edge"}
    /\ \/ last.op = "set_face" /\ face_df[last.row].is_alive = 0
       \/ last.op = "set_edge" /\ face_df[edge_df[last.row].face].is_alive = 0
    /\ compute_energy(sheet).num # 0
    /\ compute_gradient(sheet).outcome = "ok"
    /\ compute_gradient(sheet).den # 0
    /\ \E i \in DOMAIN vert_df : compute_gradient(sheet).num[i] # <<0, 0, 0>>

\* C8: compute_gradient returns the summed per-vertex gradient divided by
\* grad_norm_factor, and compute_energy divides by nrj_norm_factor: every
\* row of the returned gradient, num / den, equals grad_i / grad_norm_factor
\* (grad_i being num / 2), and the energy's divisor is nrj_norm_factor.
C8_GradientFactor ==
    [][/\ (StepOf("compute_gradient") /\ last'.outcome = "ok"
              /\ last'.ret.den # 0) =>
              \A i \in DOMAIN vert_df : \A c \in 1..3 :
                  last'.ret.num[i][c] * (2 * settings.grad_norm_factor)
                      = last'.ret.num[i][c] * last'.ret.den
       /\ StepOf("compute_energy") =>
              last'.ret.den = 2 * settings.nrj_norm_factor]_vars

\* C9: update_all is idempotent: update_all applied to the sheet a call of
\* update_all has left computes the very columns it finds there, and so a
\* call of update_all that directly follows a call of update_all leaves
\* every derived column as the first call left it, in every geometry mode
\* and also when the columns were stale before the first call.
C9_UpdateAllIdempotent ==
    [][/\ StepOf("update_all") => update_all(sheet') = sheet'
       /\ (last.op = "update_all" /\ StepOf("update_all")) => SameTables]_vars

\* update_all has been called, in one of the four modes, on a sheet whose
\* derived columns were stale, and has rewritten them.
C9_Witness ==
    /\ last.op = "update_all"
    /\ last.changed
    /\ settings.geometry \in Modes

\* C10: an unrecognized geometry mode is fatal: with a geometry setting
\* that is not flat, cylindrical, spherical or rod, update_height, and so
\* update_all, ends in an error and writes no height.
C10_UnknownModeIsFatal ==
    [][((StepOf("update_height") \/ StepOf("update_all"))
           /\ settings.geometry \notin Modes) =>
          (last'.outcome # "ok" /\ vert_df' = vert_df)]_vars

(***************************************************************************)
(* Claims on the pairing of half-edges                                     *)
(***************************************************************************)
\* Every half-edge has exactly one opposite, in another face, and its source
\* and target are rows of vert_df.
well_paired(E, V) ==
    \A i \in DOMAIN E :
        /\ paired(E, i)
        /\ E[i].srce \in DOMAIN V
        /\ E[i].trgt \in DOMAIN V

\* A call of add_vert, type1_transition or cell_division has returned.
completed ==
    /\ nops' = nops + 1
    /\ last'.op \in {"add_vert", "type1_transition", "cell_division"}
    /\ last'.outcome \in {"ok", "not_alive"}

\* C12: half-edge pairing is kept by every topology operation: on a sheet
\* where every half-edge has exactly one opposite, in another face, and
\* references existing vertices, a call of add_vert, type1_transition or
\* cell_division that returns leaves a sheet with the same property.
C12_PairingKept ==
    [][(well_paired(edge_df, vert_df) /\ completed) =>
          well_paired(edge_df', vert_df')]_vars

(***************************************************************************)
(* The gradient against the finite differences of the energy               *)
(*                                                                         *)
(* Sheets on which the fixed point is exact: flat mode, every face in the  *)
(* plane z = 3, even coordinates, face centres on integers, no line        *)
(* tension and no contractility.  The energy is then the volume term,      *)
(* 0.5 * K * (vol - prefered_vol) ** 2 per live face, a polynomial of      *)
(* degree two in each vertex's x and in each vertex's y, and its central   *)
(* difference equals its derivative for any step.                          *)
(***************************************************************************)
\* One hexagonal face.
HexCycles == << <<1, 2, 3, 4, 5, 6>> >>

HexPos ==
    << <<16, 0, 3>>, <<8, 12, 3>>, <<-8, 12, 3>>, <<-16, 0, 3>>,
       <<-8, -12, 3>>, <<8, -12, 3>> >>

\* Two square faces 1-2-3-4 and 2-5-6-3 sharing the edge 2-3.
SquarePos ==
    << <<0, 0, 3>>, <<16, 0, 3>>, <<16, 16, 3>>, <<0, 16, 3>>,
       <<32, 0, 3>>, <<32, 16, 3>> >>

\* The step of the central difference: a multiple of the number of sides of
\* every face, so that a moved vertex leaves the face centres on integers.
Eps == 12

\* The tolerance of the comparison is 1 / TolInv.
TolInv == 100000

\* A sheet in flat mode with the given faces, positions, per-vertex
\* basal_shift, dead faces and prefered_vol, its derived columns not yet
\* computed.
flat_sheet(cycles, positions, basal_shift, dead, prefered_vol) ==
    LET edges == MeshEdges(cycles, Len(cycles))
    IN  [vert_df |->
             [i \in 1..Len(positions) |->
                 [pos |-> positions[i], rho |-> 0, height |-> 0,
                  basal_shift |-> basal_shift[i],
                  left_tip |-> 0, right_tip |-> 0]],
         edge_df |->
             [e \in 1..Len(edges) |->
                 [srce |-> edges[e].srce, trgt |-> edges[e].trgt,
                  face |-> edges[e].face,
                  dcoords |-> <<0, 0, 0>>, length |-> 0,
                  ncoords |-> <<0, 0, 0>>, sub_area |-> 0, sub_vol |-> 0,
                  line_tension |-> 0]],
         face_df |->
             [f \in 1..Len(cycles) |->
                 [pos |-> <<0, 0, 0>>, area |-> 0, perimeter |-> 0,
                  vol |-> 0, height |-> 0, rho |-> 0,
                  is_alive |-> IF f \in dead THEN 0 ELSE 1,
                  contractility |-> 0, vol_elasticity |-> 1,
                  prefered_vol |-> prefered_vol]],
         settings |->
             [geometry |-> "flat", height_axis |-> 3, ab |-> <<1, 3>>,
              grad_norm_factor |-> 1, nrj_norm_factor |-> 1]]

\* The sheets the gradient is compared on: the hexagon, the two squares,
\* and the two squares with the second one dead.
FlatSheets ==
    { [cycles |-> HexCycles, positions |-> HexPos, dead |-> {}],
      [cycles |-> PatchCycles, positions |-> SquarePos, dead |-> {}],
      [cycles |-> PatchCycles, positions |-> SquarePos, dead |-> {2}] }

\* The sheet after vertex i has been moved by d along coordinate k and the
\* geometry updated.
moved(sh, i, k, d) ==
    update_all([sh EXCEPT !.vert_df[i].pos[k] = @ + d])

\* The central difference of compute_energy at vertex i, coordinate k, is
\* central_difference / (2 * Eps * den), den the divisor of the energy.
central_difference(sh, i, k) ==
    compute_energy(moved(sh, i, k, Eps)).num
        - compute_energy(moved(sh, i, k, -Eps)).num

abs(x) == IF x < 0 THEN -x ELSE x

InitGrad ==
    /\ \E m \in FlatSheets, prefered_vol \in {700, 800},
          basal_shift \in [1..6 -> {1, 2}] :
          LET sh == update_all(flat_sheet(m.cycles, m.positions, basal_shift,
                                          m.dead, prefered_vol))
          IN  /\ vert_df = sh.vert_df
              /\ edge_df = sh.edge_df
              /\ face_df = sh.face_df
              /\ settings = sh.settings
    /\ last = [op |-> "none", row |-> 0, col |-> "", outcome |-> "ok",
               ret |-> 0, changed |-> FALSE, prev |-> "none",
               prev_changed |-> FALSE]
    /\ nops = 0

NextGrad ==
    \/ UpdateAll
    \/ ComputeEnergy
    \/ ComputeGradient

SpecGrad == InitGrad /\ [][NextGrad]_vars

\* C11: compute_gradient equals the finite-difference gradient of
\* compute_energy to a tolerance of 1e-5, on a single hexagonal face, on a
\* sheet of several cells and on a sheet with a dead face: for every vertex
\* i and each of its coordinates x and y, row i of the returned gradient,
\* num[i][k] / (Unit * den), differs from the central difference of the
\* energy, central_difference / (2 * Eps * den), by at most 1 / TolInv.
C11_GradientIsDerivative ==
    [][(StepOf("compute_gradient") /\ last'.outcome = "ok"
           /\ last'.ret.den # 0) =>
          \A i \in DOMAIN vert_df : \A k \in 1..2 :
              abs(last'.ret.num[i][k] * 2 * Eps
                    - central_difference(sheet, i, k) * Unit)
                  <= (Unit * last'.ret.den * 2 * Eps) \div TolInv]_vars
====
